---------------------------- MODULE Spec2Model ----------------------------
(***************************************************************************)
(* Model of src/main.py, the sports highlight recorder.                    *)
(*                                                                         *)
(* Threads of the program:                                                 *)
(*   - the main thread (main, start_recording, stop_recording),            *)
(*   - the capture thread (recording_loop),                                *)
(*   - the GPIO callback (button_pressed), which starts                    *)
(*   - one daemon thread per trigger (save_highlight).                     *)
(* The threads share frame_buffer, recording and camera without a lock.    *)
(* A step of the model is one statement of the source; a statement that    *)
(* touches a shared object does so in one step (deque.append, popleft,     *)
(* len and list(deque) each run inside one interpreter call).              *)
(*                                                                         *)
(* Frames carry no number in the source.  The model names a frame by its   *)
(* position in capture order: the k-th frame appended is frame k.          *)
(* Time is counted in ticks of 250 ms.                                     *)
(***************************************************************************)
EXTENDS Integers, Sequences, FiniteSets, TLC

(* ------------------------------ bounds -------------------------------- *)
\* The source sets BUFFER_SECONDS = 120 and FPS = 15 (1800 frames); the
\* model keeps the same product rule on a window small enough to fill, and
\* a frame rate that, like 15, does not divide every frame count into
\* whole tenths of a second.
BUFFER_SECONDS == 1
FPS == 3
\* Frames the camera delivers before the model stops delivering more.
MaxFrames == 4
\* Triggers (hence save_highlight threads) the model follows.
MaxExports == 2
\* Last tick of the wall clock.
MaxTime == 3
\* Working times an iteration is timed with, in half periods.
MaxWork == 3

(* ------------------------- program constants --------------------------- *)
\* bouncetime=500 ms, in ticks.
BOUNCE_TICKS == 2
\* One wall-clock second, in ticks.
TICKS_PER_SECOND == 4

max_buffer_size == BUFFER_SECONDS * FPS

Exports == 1..MaxExports

VARIABLES
    frame_buffer,   \* self.frame_buffer: frames, oldest first
    recording,      \* self.recording
    camera,         \* self.camera: "none", "open" or "released"
    source,         \* the device behind the camera: "ok" or "dead"
    loop_pc,        \* position of the capture thread in recording_loop
    frame_count,    \* recording_loop's local frame_count
    main_pc,        \* position of the main thread
    gpio,           \* "armed" while the edge callback is registered
    lastcall,       \* tick of the last callback RPi.GPIO delivered, or -1
    now,            \* wall clock, in ticks
    exp,            \* exp[e]: the save_highlight thread of trigger e
    nexp,           \* triggers delivered so far
    files,          \* files[name]: frames stored under that name, or NoFile
    hist            \* history: the frames popleft has removed, the
                    \* buffer as it was when the device was lost, whether
                    \* initialize_camera failed, the tick of the last
                    \* trigger delivered (-1 before the first), and the
                    \* working time and the sleep of the last iteration
                    \* that was timed (-1 before)

vars == << frame_buffer, recording, camera, source, loop_pc, frame_count,
           main_pc, gpio, lastcall, now, exp, nexp, files, hist >>

NoFile == << 0 >>
NoName == 0 - 1

(* ------------------------------ helpers -------------------------------- *)
Min(a, b) == IF a < b THEN a ELSE b
Max(a, b) == IF a > b THEN a ELSE b

\* The frames lo..hi in order (empty when hi < lo).
Range(lo, hi) == [i \in 1..(hi - lo + 1) |-> lo + i - 1]

SeqToSet(s) == {s[i] : i \in 1..Len(s)}

\* Mutant: appendleft in place of append.
DequeAppendleft(d, x) == << x >> \o d

\* deque.append(x)
DequeAppend(d, x) == Append(d, x)

\* deque.popleft()
DequePopleft(d) == Tail(d)

\* list(deque): an independent copy of the current contents
ListCopy(d) == d

\* datetime.now().strftime("%Y%m%d_%H%M%S"): the clock cut to whole seconds
Strftime(t) == t \div TICKS_PER_SECOND

\* The process is alive until main returns; every other thread is a daemon.
Alive == main_pc # "exited"

\* Frames appended so far (the frame being appended in this iteration is
\* counted once line 115 has run, before frame_count is incremented).
Pushed == IF loop_pc = "evict" THEN frame_count + 1 ELSE frame_count

\* Fields of exp[e]: pc, fname (the second in the file name), snap (the
\* list made at line 159), written (frames_written), report (what the
\* thread printed when it ended), repFrames and repTenths (the frame count
\* and the duration, in tenths of a second, of the success report).
\* History fields: wrote (the frames handed to out.write, in order),
\* snapPushed and snapEvicted (frames appended and frames evicted when the
\* list was made), trigLost (the device was already lost at the trigger),
\* announced (the count printed at line 147, where the specification
\* keeps it).
IdleExport == [pc |-> "idle", fname |-> NoName,
               snap |-> << >>, written |-> 0, report |-> "none",
               repFrames |-> 0, repTenths |-> 0,
               wrote |-> << >>, snapPushed |-> 0, snapEvicted |-> {},
               trigLost |-> FALSE, announced |-> 0]

Init ==
    /\ frame_buffer = << >>
    /\ recording = FALSE
    /\ camera = "none"
    /\ source = "ok"
    /\ loop_pc = "off"
    /\ frame_count = 0
    /\ main_pc = "start"
    /\ gpio = "armed"
    /\ lastcall = -1
    /\ now = 0
    /\ exp = [e \in Exports |-> IdleExport]
    /\ nexp = 0
    /\ files = [n \in 0..Strftime(MaxTime) |-> NoFile]
    /\ hist = [evicted |-> {}, atLoss |-> << >>, initFailed |-> FALSE,
               lastTrig |-> -1, work |-> -1, slept |-> -1]

(* --------------------------- main thread ------------------------------- *)
\* start_recording, line 88: initialize_camera finds a readable camera or
\* releases the last one it tried; on failure main returns (lines 200-202).
\* Mutant: the result of initialize_camera is ignored.
AfterInitIgnored(found) == "cam_ok"

\* lines 88-89 and 200-202: without a camera start_recording returns False
\* and main returns.
AfterInit(found) == IF found THEN "cam_ok" ELSE "exited"

MainInitCamera ==
    /\ main_pc = "start"
    /\ \E found \in BOOLEAN :
          /\ camera' = IF found THEN "open" ELSE "released"
          /\ main_pc' = AfterInit(found)
          /\ hist' = [hist EXCEPT !.initFailed = ~found]
    /\ UNCHANGED << frame_buffer, recording, source, loop_pc, frame_count,
                    gpio, lastcall, now, exp, nexp, files >>

\* start_recording, lines 91-95: set the flag and start the capture thread.
MainStartThread ==
    /\ main_pc = "cam_ok"
    /\ recording' = TRUE
    /\ loop_pc' = "test"
    /\ main_pc' = "loop"
    /\ UNCHANGED << frame_buffer, camera, source, frame_count, gpio,
                    lastcall, now, exp, nexp, files, hist >>

\* main, lines 213-214: time.sleep(30) has run out
MainWake ==
    /\ main_pc = "loop"
    /\ main_pc' = "stats"
    /\ UNCHANGED << frame_buffer, recording, camera, source, loop_pc,
                    frame_count, gpio, lastcall, now, exp, nexp, files,
                    hist >>

\* get_stats, lines 187-193: the buffer length, the flag and the number of
\* files are read and printed; nothing is kept.
GetStats ==
    /\ main_pc = "stats"
    /\ main_pc' = "loop"
    /\ UNCHANGED << frame_buffer, recording, camera, source, loop_pc,
                    frame_count, gpio, lastcall, now, exp, nexp, files,
                    hist >>

\* KeyboardInterrupt anywhere inside main's try block (lines 198-219).
MainInterrupt ==
    /\ main_pc \in {"start", "cam_ok", "loop", "stats"}
    /\ main_pc' = "stop_flag"
    /\ UNCHANGED << frame_buffer, recording, camera, source, loop_pc,
                    frame_count, gpio, lastcall, now, exp, nexp, files,
                    hist >>

\* stop_recording, line 179
StopSetFlag ==
    /\ main_pc = "stop_flag"
    /\ recording' = FALSE
    /\ main_pc' = "stop_release"
    /\ UNCHANGED << frame_buffer, camera, source, loop_pc, frame_count,
                    gpio, lastcall, now, exp, nexp, files, hist >>

\* stop_recording, lines 181-182
StopRelease ==
    /\ main_pc = "stop_release"
    /\ camera' = IF camera = "none" THEN "none" ELSE "released"
    /\ main_pc' = "stop_gpio"
    /\ UNCHANGED << frame_buffer, recording, source, loop_pc, frame_count,
                    gpio, lastcall, now, exp, nexp, files, hist >>

\* stop_recording, line 184
StopCleanup ==
    /\ main_pc = "stop_gpio"
    /\ gpio' = "off"
    /\ main_pc' = "stop_done"
    /\ UNCHANGED << frame_buffer, recording, camera, source, loop_pc,
                    frame_count, lastcall, now, exp, nexp, files, hist >>

\* main returns (line 220); the daemon threads end with the process.
MainExit ==
    /\ main_pc = "stop_done"
    /\ main_pc' = "exited"
    /\ UNCHANGED << frame_buffer, recording, camera, source, loop_pc,
                    frame_count, gpio, lastcall, now, exp, nexp, files,
                    hist >>

(* -------------------------- capture thread ----------------------------- *)
\* Mutant: while True.
WhileTrue(flag) == TRUE

\* line 104: the loop goes on while self.recording is True
WhileCondition(flag) == flag

\* line 104: while self.recording
LoopTest ==
    /\ Alive
    /\ loop_pc = "test"
    /\ loop_pc' = IF WhileCondition(recording) THEN "read" ELSE "exit"
    /\ UNCHANGED << frame_buffer, recording, camera, source, frame_count,
                    main_pc, gpio, lastcall, now, exp, nexp, files, hist >>

\* What camera.read() can return: a released camera or a dead device gives
\* no frame; a live one gives a frame, fails once, or fails for good.
ReadOutcomes ==
    IF camera # "open" \/ source = "dead"
    THEN {"fail"}
    ELSE {"fail", "lost"} \cup (IF Pushed < MaxFrames THEN {"frame"} ELSE {})

\* Mutant: the "continue" of line 109 left out.
AfterReadFallsThrough(r) == "append"

\* lines 107-109: without a frame, warn and go back to the loop test
AfterRead(r) == IF r = "frame" THEN "append" ELSE "test"

\* lines 105-109: read; on failure warn and continue
LoopRead ==
    /\ Alive
    /\ loop_pc = "read"
    /\ \E r \in ReadOutcomes :
          /\ loop_pc' = AfterRead(r)
          /\ source' = IF r = "lost" THEN "dead" ELSE source
          /\ hist' = IF r = "lost" THEN [hist EXCEPT !.atLoss = frame_buffer]
                                   ELSE hist
    /\ UNCHANGED << frame_buffer, recording, camera, frame_count, main_pc,
                    gpio, lastcall, now, exp, nexp, files >>

\* lines 112-115: self.frame_buffer.append((frame.copy(), timestamp))
LoopAppend ==
    /\ Alive
    /\ loop_pc = "append"
    /\ frame_buffer' = DequeAppend(frame_buffer, frame_count + 1)
    /\ loop_pc' = "evict"
    /\ UNCHANGED << recording, camera, source, frame_count, main_pc, gpio,
                    lastcall, now, exp, nexp, files, hist >>

\* Mutant: >= in place of >.
OverCapacityEarly(d) == Len(d) >= max_buffer_size

\* line 118: len(self.frame_buffer) > self.max_buffer_size
OverCapacity(d) == Len(d) > max_buffer_size

\* lines 118-123: evict one frame when over capacity, count the frame
LoopEvict ==
    /\ Alive
    /\ loop_pc = "evict"
    /\ IF OverCapacity(frame_buffer)
       THEN /\ frame_buffer' = DequePopleft(frame_buffer)
            /\ hist' = [hist EXCEPT !.evicted = @ \cup {Head(frame_buffer)}]
       ELSE UNCHANGED << frame_buffer, hist >>
    /\ frame_count' = frame_count + 1
    /\ loop_pc' = "sleep"
    /\ UNCHANGED << recording, camera, source, main_pc, gpio, lastcall,
                    now, exp, nexp, files >>

\* line 126: time.sleep(1.0 / self.FPS)
LoopSleep ==
    /\ Alive
    /\ loop_pc = "sleep"
    /\ loop_pc' = "test"
    /\ UNCHANGED << frame_buffer, recording, camera, source, frame_count,
                    main_pc, gpio, lastcall, now, exp, nexp, files, hist >>

\* The frame period 1.0 / self.FPS, in milliseconds.
Period == 1000 \div FPS

\* The working times an iteration is timed with: none, half a period, a
\* period, and so on.
WorkTimes == {(k * Period) \div 2 : k \in 0..MaxWork}

\* line 126: the sleep is 1.0 / self.FPS whatever the iteration's working
\* time d was
SleepFor(d) == Period

\* line 126 with the iteration timed: the read, the copy and the append
\* took d, then the thread sleeps.
LoopSleepTimed ==
    /\ Alive
    /\ loop_pc = "sleep"
    /\ loop_pc' = "test"
    /\ \E d \in WorkTimes :
          hist' = [hist EXCEPT !.work = d, !.slept = SleepFor(d)]
    /\ UNCHANGED << frame_buffer, recording, camera, source, frame_count,
                    main_pc, gpio, lastcall, now, exp, nexp, files >>

(* ------------------------ clock and trigger ---------------------------- *)
Tick ==
    /\ Alive
    /\ now < MaxTime
    /\ now' = now + 1
    /\ UNCHANGED << frame_buffer, recording, camera, source, loop_pc,
                    frame_count, main_pc, gpio, lastcall, exp, nexp, files,
                    hist >>

\* Mutant: add_event_detect without bouncetime.
DebounceOff == TRUE

\* GPIO.add_event_detect(..., bouncetime=500): an edge is delivered when
\* no callback ran before or the last one ran more than bouncetime ago.
DebouncePassed == lastcall = -1 \/ now - lastcall > BOUNCE_TICKS

\* button_pressed, lines 128-134: start a save_highlight thread
ButtonPressed ==
    /\ Alive
    /\ gpio = "armed"
    /\ DebouncePassed
    /\ nexp < MaxExports
    /\ lastcall' = now
    /\ nexp' = nexp + 1
    /\ exp' = [exp EXCEPT ![nexp + 1] =
                  [IdleExport EXCEPT !.pc = "check",
                                     !.trigLost = (source = "dead")]]
    /\ hist' = [hist EXCEPT !.lastTrig = now]
    /\ UNCHANGED << frame_buffer, recording, camera, source, loop_pc,
                    frame_count, main_pc, gpio, now, files >>

(* ------------------------- save_highlight ------------------------------ *)
\* Mutant: button_pressed calls save_highlight itself, so the exports run
\* one after the other on the callback thread.
SaveThreadSerial(e) ==
    /\ exp[e].pc \notin {"idle", "done"}
    /\ \A o \in Exports : o < e => exp[o].pc \in {"idle", "done"}

\* lines 133-134: each save_highlight runs on a thread of its own, which is
\* ready to run as long as it has a statement left.
SaveThreadReady(e) == exp[e].pc \notin {"idle", "done"}

\* Mutant: the emptiness check left out.
BufferEmptyNever(d) == FALSE

\* line 138: len(self.frame_buffer) == 0
BufferEmpty(d) == Len(d) = 0

\* lines 138-140: nothing buffered, report and return
ExpCheck(e) ==
    /\ Alive
    /\ SaveThreadReady(e)
    /\ exp[e].pc = "check"
    /\ exp' = IF BufferEmpty(frame_buffer)
              THEN [exp EXCEPT ![e].pc = "done", ![e].report = "empty"]
              ELSE [exp EXCEPT ![e].pc = "name"]
    /\ UNCHANGED << frame_buffer, recording, camera, source, loop_pc,
                    frame_count, main_pc, gpio, lastcall, now, nexp, files,
                    hist >>

\* lines 143-145: the file name comes from the clock, to the second
ExpName(e) ==
    /\ Alive
    /\ SaveThreadReady(e)
    /\ exp[e].pc = "name"
    /\ exp' = [exp EXCEPT ![e].pc = "announce", ![e].fname = Strftime(now)]
    /\ UNCHANGED << frame_buffer, recording, camera, source, loop_pc,
                    frame_count, main_pc, gpio, lastcall, now, nexp, files,
                    hist >>

\* line 147: print(f"Saving {len(self.frame_buffer)} frames ..."), the
\* printed count kept for comparison
ExpAnnounceKept(e) ==
    /\ Alive
    /\ SaveThreadReady(e)
    /\ exp[e].pc = "announce"
    /\ exp' = [exp EXCEPT ![e].pc = "open",
                          ![e].announced = Len(frame_buffer)]
    /\ UNCHANGED << frame_buffer, recording, camera, source, loop_pc,
                    frame_count, main_pc, gpio, lastcall, now, nexp, files,
                    hist >>

\* line 147: print(f"Saving {len(self.frame_buffer)} frames ..."); the
\* count is printed and not kept.
ExpAnnounce(e) ==
    /\ Alive
    /\ SaveThreadReady(e)
    /\ exp[e].pc = "announce"
    /\ exp' = [exp EXCEPT ![e].pc = "open"]
    /\ UNCHANGED << frame_buffer, recording, camera, source, loop_pc,
                    frame_count, main_pc, gpio, lastcall, now, nexp, files,
                    hist >>

\* cv2.VideoWriter(filepath, ...): the file is created, or cut to nothing
\* when it exists already.
OpenForWriting(fs, name) == [fs EXCEPT ![name] = << >>]

\* lines 150-155: open the writer on the final path; give up when it
\* did not open
ExpOpen(e) ==
    /\ Alive
    /\ SaveThreadReady(e)
    /\ exp[e].pc = "open"
    /\ \E opened \in BOOLEAN :
          IF opened
          THEN /\ files' = OpenForWriting(files, exp[e].fname)
               /\ exp' = [exp EXCEPT ![e].pc = "snapshot"]
          ELSE /\ files' = files
               /\ exp' = [exp EXCEPT ![e].pc = "done",
                                     ![e].report = "open_failed"]
    /\ UNCHANGED << frame_buffer, recording, camera, source, loop_pc,
                    frame_count, main_pc, gpio, lastcall, now, nexp, hist >>

\* Mutant: the export drains the deque it copies.
DequeAfterListDrained(d) == << >>

\* line 159: list() leaves the deque it copies as it was
DequeAfterList(d) == d

\* line 159: list(self.frame_buffer), the frames the for loop will visit
ExpSnapshot(e) ==
    /\ Alive
    /\ SaveThreadReady(e)
    /\ exp[e].pc = "snapshot"
    /\ LET s == ListCopy(frame_buffer) IN
       exp' = [exp EXCEPT ![e].pc = IF Len(s) = 0 THEN "release" ELSE "write",
                          ![e].snap = s,
                          ![e].snapPushed = Pushed,
                          ![e].snapEvicted = hist.evicted]
    /\ frame_buffer' = DequeAfterList(frame_buffer)
    /\ UNCHANGED << recording, camera, source, loop_pc,
                    frame_count, main_pc, gpio, lastcall, now, nexp, files,
                    hist >>

\* A writer stores its k-th frame at its own position k of the file; a
\* position nobody has written since the last truncation reads as 0.
WriteAt(data, k, f) ==
    [i \in 1..Max(Len(data), k) |->
        IF i = k THEN f ELSE IF i <= Len(data) THEN data[i] ELSE 0]

\* Mutant: the loop walks the live deque by position, not the list.
FrameToWriteLive(e, k) == frame_buffer[Min(k, Len(frame_buffer))]

\* The frame the for loop of line 159 hands to out.write in its k-th round.
FrameToWrite(e, k) == exp[e].snap[k]

\* lines 159-161: one round of the for loop
ExpWrite(e) ==
    /\ Alive
    /\ SaveThreadReady(e)
    /\ exp[e].pc = "write"
    /\ LET k == exp[e].written + 1 IN
       /\ files' = [files EXCEPT ![exp[e].fname] =
                        WriteAt(files[exp[e].fname], k, FrameToWrite(e, k))]
       /\ exp' = [exp EXCEPT ![e].written = k,
                             ![e].wrote = Append(@, FrameToWrite(e, k)),
                             ![e].pc = IF k = Len(exp[e].snap)
                                       THEN "release" ELSE "write"]
    /\ UNCHANGED << frame_buffer, recording, camera, source, loop_pc,
                    frame_count, main_pc, gpio, lastcall, now, nexp, hist >>

\* line 163: out.release()
ExpRelease(e) ==
    /\ Alive
    /\ SaveThreadReady(e)
    /\ exp[e].pc = "release"
    /\ exp' = [exp EXCEPT ![e].pc = "report"]
    /\ UNCHANGED << frame_buffer, recording, camera, source, loop_pc,
                    frame_count, main_pc, gpio, lastcall, now, nexp, files,
                    hist >>

\* Mutant: the duration cut to tenths, not rounded.
TenthsCut(fw, fps) == (10 * fw) \div fps

\* lines 167 and 171: frames_written / self.FPS printed with "{:.1f}",
\* that is the nearest tenth of a second, a tie going to the even tenth.
Tenths(fw, fps) ==
    LET q == (10 * fw) \div fps
        r == (10 * fw) % fps
    IN  IF 2 * r > fps \/ (2 * r = fps /\ q % 2 = 1) THEN q + 1 ELSE q

\* lines 165-174: the success report
ExpReport(e) ==
    /\ Alive
    /\ SaveThreadReady(e)
    /\ exp[e].pc = "report"
    /\ exp' = [exp EXCEPT ![e].pc = "done", ![e].report = "saved",
                          ![e].repFrames = exp[e].written,
                          ![e].repTenths = Tenths(exp[e].written, FPS)]
    /\ UNCHANGED << frame_buffer, recording, camera, source, loop_pc,
                    frame_count, main_pc, gpio, lastcall, now, nexp, files,
                    hist >>

(* --------------------------- specification ----------------------------- *)
Next ==
    \/ MainInitCamera
    \/ MainStartThread
    \/ MainWake
    \/ GetStats
    \/ MainInterrupt
    \/ StopSetFlag
    \/ StopRelease
    \/ StopCleanup
    \/ MainExit
    \/ LoopTest
    \/ LoopRead
    \/ LoopAppend
    \/ LoopEvict
    \/ LoopSleep
    \/ Tick
    \/ ButtonPressed
    \/ \E e \in Exports : ExpCheck(e)
    \/ \E e \in Exports : ExpName(e)
    \/ \E e \in Exports : ExpAnnounce(e)
    \/ \E e \in Exports : ExpOpen(e)
    \/ \E e \in Exports : ExpSnapshot(e)
    \/ \E e \in Exports : ExpWrite(e)
    \/ \E e \in Exports : ExpRelease(e)
    \/ \E e \in Exports : ExpReport(e)

Spec == Init /\ [][Next]_vars

\* The recorder with the printed count of line 147 kept in the export.
NextAnnounce ==
    \/ MainInitCamera
    \/ MainStartThread
    \/ MainWake
    \/ GetStats
    \/ MainInterrupt
    \/ StopSetFlag
    \/ StopRelease
    \/ StopCleanup
    \/ MainExit
    \/ LoopTest
    \/ LoopRead
    \/ LoopAppend
    \/ LoopEvict
    \/ LoopSleep
    \/ Tick
    \/ ButtonPressed
    \/ \E e \in Exports : ExpCheck(e)
    \/ \E e \in Exports : ExpName(e)
    \/ \E e \in Exports : ExpAnnounceKept(e)
    \/ \E e \in Exports : ExpOpen(e)
    \/ \E e \in Exports : ExpSnapshot(e)
    \/ \E e \in Exports : ExpWrite(e)
    \/ \E e \in Exports : ExpRelease(e)
    \/ \E e \in Exports : ExpReport(e)

SpecAnnounce == Init /\ [][NextAnnounce]_vars

\* The main thread and the capture thread alone, the iterations timed.
LoopStepTimed ==
    LoopTest \/ LoopRead \/ LoopAppend \/ LoopEvict \/ LoopSleepTimed

StopStep == StopSetFlag \/ StopRelease \/ StopCleanup

NextCapture ==
    \/ MainInitCamera
    \/ MainStartThread
    \/ MainWake
    \/ GetStats
    \/ MainInterrupt
    \/ StopSetFlag
    \/ StopRelease
    \/ StopCleanup
    \/ MainExit
    \/ LoopTest
    \/ LoopRead
    \/ LoopAppend
    \/ LoopEvict
    \/ LoopSleepTimed

\* The capture thread is scheduled again and again while it has a
\* statement to run, and stop_recording runs to its end once called.
\* Nothing makes the operator interrupt, or main return.
SpecCapture ==
    Init /\ [][NextCapture]_vars /\ WF_vars(LoopStepTimed) /\ WF_vars(StopStep)

\* The next statement of the capture thread, and of an export.
LoopStep == LoopTest \/ LoopRead \/ LoopAppend \/ LoopEvict \/ LoopSleep

ExpStep(e) ==
    \/ ExpCheck(e) \/ ExpName(e) \/ ExpAnnounce(e) \/ ExpOpen(e)
    \/ ExpSnapshot(e) \/ ExpWrite(e) \/ ExpRelease(e) \/ ExpReport(e)

TypeOK ==
    /\ recording \in BOOLEAN
    /\ camera \in {"none", "open", "released"}
    /\ source \in {"ok", "dead"}
    /\ loop_pc \in {"off", "test", "read", "append", "evict", "sleep", "exit"}
    /\ frame_count \in 0..MaxFrames
    /\ now \in 0..MaxTime
    /\ nexp \in 0..MaxExports

(* ------------------------------ claims --------------------------------- *)
\* Exports whose list of line 159 has been made.
Snapshotted(e) == exp[e].pc \in {"write", "release", "report"}
                  \/ exp[e].report = "saved"

\* Exports running between their trigger and their last statement.
InFlight(e) == exp[e].pc \notin {"idle", "done"}

IsPrefix(s, t) == Len(s) <= Len(t) /\ \A i \in 1..Len(s) : s[i] = t[i]

\* C1: whenever the capture loop is not between its append and its
\* eviction, N = frame_count pushes have completed and the buffer holds
\* exactly min(N, capacity) frames, the most recent ones, oldest first:
\* frames max(1, N - capacity + 1) .. N.
C1_BufferHoldsMostRecent ==
    loop_pc # "evict" =>
        /\ Len(frame_buffer) = Min(frame_count, max_buffer_size)
        /\ frame_buffer =
              Range(Max(1, frame_count - max_buffer_size + 1), frame_count)

\* C1 witness: a push beyond the capacity has completed, with its eviction.
C1_Witness ==
    /\ loop_pc = "sleep"
    /\ frame_count = max_buffer_size + 1
    /\ frame_buffer = Range(2, max_buffer_size + 1)

\* C2 (as claimed, where another thread sees it): frame_buffer holds at
\* most max_buffer_size frames at every moment, so the list an export
\* makes of it never holds more than max_buffer_size frames.
C2_BufferWithinCapacity ==
    \A e \in Exports : Len(exp[e].snap) <= max_buffer_size

\* C3: the list an export works on is the buffer at one instant: it holds
\* exactly the frames appended by that instant and not evicted by then
\* (so every frame appended before the trigger and still buffered, and no
\* frame appended later), and the frames the export hands to the writer
\* are that list, from its start, all of it once the loop has ended.
C3_PointInTimeSnapshot ==
    \A e \in Exports :
        Snapshotted(e) =>
            /\ SeqToSet(exp[e].snap) =
                  (1..exp[e].snapPushed) \ exp[e].snapEvicted
            /\ IsPrefix(exp[e].wrote, exp[e].snap)
            /\ exp[e].pc # "write" => exp[e].wrote = exp[e].snap

\* C3 witness: an export has finished although the capture loop appended
\* and evicted frames after its list was made.
C3_Witness ==
    \E e \in Exports :
        /\ exp[e].report = "saved"
        /\ Len(exp[e].snap) >= 2
        /\ Pushed > exp[e].snapPushed
        /\ hist.evicted # exp[e].snapEvicted
        /\ exp[e].wrote = exp[e].snap

\* C4 (as claimed): two exports never work under the same file name (the
\* name carries the second, so two names made in different seconds differ
\* anyway), and what an export has written to its file stays there.
C4_DistinctFileNames ==
    \A e1, e2 \in Exports :
        /\ (e1 # e2 /\ exp[e1].fname # NoName /\ exp[e2].fname # NoName)
              => exp[e1].fname # exp[e2].fname
        /\ Snapshotted(e1) => IsPrefix(exp[e1].wrote, files[exp[e1].fname])

\* C5: while the buffer is empty every export that has made its check has
\* ended with the "nothing to save" report; such an export never made a
\* file name, opened the writer or wrote a frame, and no file exists that
\* an export did not open; and an export that opened the writer and ended
\* its write loop has written at least one frame.
C5_EmptyBufferNeverEncoded ==
    /\ \A e \in Exports :
          /\ (Len(frame_buffer) = 0 /\ exp[e].pc \notin {"idle", "check"})
                => (exp[e].pc = "done" /\ exp[e].report = "empty")
          /\ exp[e].report = "empty"
                => (exp[e].fname = NoName /\ exp[e].written = 0
                    /\ exp[e].wrote = << >>)
          /\ (exp[e].pc \in {"release", "report"} \/ exp[e].report = "saved")
                => exp[e].written >= 1
    /\ \A n \in DOMAIN files :
          files[n] # NoFile =>
              \E e \in Exports : exp[e].fname = n /\ exp[e].report # "empty"

\* C5 witness: one export found the buffer empty and said so, and a later
\* one saved the frames that had arrived since.
C5_Witness ==
    \E e1, e2 \in Exports :
        /\ exp[e1].pc = "done" /\ exp[e1].report = "empty"
        /\ exp[e2].report = "saved" /\ exp[e2].written >= 1

\* C6 (as claimed): a file that exists under a highlight name is complete:
\* an export of that name has ended its write loop and closed the writer,
\* and the file holds exactly the frames of that export's list.
C6_FinalNameIsComplete ==
    \A n \in DOMAIN files :
        files[n] # NoFile =>
            \E e \in Exports :
                /\ exp[e].fname = n
                /\ exp[e].pc = "report" \/ exp[e].report = "saved"
                /\ files[n] = exp[e].snap

\* C7: the frames an export has handed to the writer are consecutive frames
\* of the capture sequence, in capture order: each is the successor of the
\* one before it (so none is repeated, none reordered, none skipped).
C7_WrittenInCaptureOrder ==
    \A e \in Exports :
        \A i \in 1..(Len(exp[e].wrote) - 1) :
            exp[e].wrote[i + 1] = exp[e].wrote[i] + 1

\* C7 witness: two exports have written several frames each, from lists
\* made on different sides of an eviction.
C7_Witness ==
    \E e1, e2 \in Exports :
        /\ e1 # e2
        /\ Len(exp[e1].wrote) >= 2 /\ Len(exp[e2].wrote) >= 2
        /\ exp[e1].snapEvicted # exp[e2].snapEvicted

\* C8 (as claimed, in the form a finite run decides): when the process has
\* ended after a stop request, every trigger that was delivered has had
\* its report, the saved highlight or a failure.
C8_EveryTriggerReported ==
    (main_pc = "exited" /\ gpio = "off") =>
        \A e \in Exports : exp[e].pc # "idle" => exp[e].report # "none"

\* C9 (as claimed): once the device is lost the buffer stays what it was,
\* the process ends only on a stop request, and every export that was
\* triggered afterwards and has ended has saved exactly the frames that
\* were buffered when the device was lost.
C9_ExportAfterLossSucceeds ==
    source = "dead" =>
        /\ frame_buffer = hist.atLoss
        /\ main_pc = "exited" => gpio = "off"
        /\ \A e \in Exports :
              (exp[e].trigLost /\ exp[e].pc = "done") =>
                  (exp[e].report = "saved" /\ exp[e].wrote = hist.atLoss)

\* C9 (amended): once the device is lost the buffer stays what it was and
\* the process ends only on a stop request; an export triggered afterwards
\* reports "nothing to save" exactly when no frame was buffered at the
\* loss, hands the writer nothing but the frames buffered at the loss, in
\* order, and, when frames were buffered and it has ended, has either
\* reported that the writer did not open or reported the highlight saved
\* with all of those frames written.
C9_ExportAfterLossUsesBuffer ==
    source = "dead" =>
        /\ frame_buffer = hist.atLoss
        /\ main_pc = "exited" => gpio = "off"
        /\ \A e \in Exports :
              exp[e].trigLost =>
                  /\ exp[e].report = "empty" => hist.atLoss = << >>
                  /\ (hist.atLoss = << >> /\ exp[e].pc \notin {"idle", "check"})
                        => exp[e].report = "empty"
                  /\ IsPrefix(exp[e].wrote, hist.atLoss)
                  /\ exp[e].report = "saved" => exp[e].wrote = hist.atLoss
                  /\ (exp[e].pc = "done" /\ hist.atLoss # << >>
                      /\ exp[e].report # "open_failed")
                        => exp[e].report = "saved"

\* C9 witness: the device was lost with frames buffered, and an export
\* triggered after the loss has saved them.
C9_Witness ==
    /\ source = "dead"
    /\ hist.atLoss # << >>
    /\ \E e \in Exports :
          /\ exp[e].trigLost
          /\ exp[e].report = "saved"
          /\ exp[e].wrote = hist.atLoss

\* C10: as long as the process lives, the capture thread always has its
\* next statement enabled until its loop has ended, whatever the exports
\* are doing, and every export in flight has its next statement enabled,
\* whatever the capture thread and the other exports are doing.
C10_NobodyWaits ==
    Alive =>
        /\ loop_pc \notin {"off", "exit"} => ENABLED LoopStep
        /\ \A e \in Exports : InFlight(e) => ENABLED ExpStep(e)

\* C10 witness: two exports are in flight, one of them inside its write
\* loop, while the capture thread is recording and about to append.
C10_Witness ==
    /\ Alive /\ recording /\ loop_pc = "append"
    /\ \E e1, e2 \in Exports :
          /\ e1 # e2
          /\ exp[e1].pc = "write" /\ exp[e1].written >= 1
          /\ InFlight(e2)

\* C11: while the edge detection is armed and a trigger was delivered no
\* more than the debounce interval ago, a button press delivers no
\* trigger and starts no export: triggers are more than 500 ms apart.
C11_OneTriggerPerInterval ==
    (Alive /\ gpio = "armed" /\ hist.lastTrig # -1
       /\ now - hist.lastTrig <= BOUNCE_TICKS)
        => ~ ENABLED ButtonPressed

\* C11 witness: one trigger has been delivered, its export runs, time has
\* passed but not more than the debounce interval, and the model could
\* follow one more export.
C11_Witness ==
    /\ Alive /\ gpio = "armed" /\ nexp = 1 /\ nexp < MaxExports
    /\ exp[1].pc # "idle"
    /\ now - hist.lastTrig = BOUNCE_TICKS

\* C12: once initialize_camera has failed, start_recording has reported
\* the failure and main has returned, recording is false, no capture
\* thread exists and the buffer is empty.
C12_FailedStartStaysStopped ==
    hist.initFailed =>
        /\ main_pc = "exited"
        /\ recording = FALSE
        /\ loop_pc = "off"
        /\ frame_buffer = << >>

\* C12 witness: the camera was not found and the process has ended.
C12_Witness ==
    /\ hist.initFailed
    /\ camera = "released"
    /\ main_pc = "exited"

\* C13 (as claimed): a success report gives as frame count the number of
\* frames handed to the writer, which is the length of the list made of
\* the buffer, and as duration exactly that count divided by FPS.
C13_ReportExact ==
    \A e \in Exports :
        exp[e].report = "saved" =>
            /\ exp[e].repFrames = Len(exp[e].wrote)
            /\ Len(exp[e].wrote) = Len(exp[e].snap)
            /\ exp[e].repTenths * FPS = 10 * exp[e].repFrames

\* C13 (amended): as claimed for the frame count; the reported duration is
\* the count divided by FPS to the nearest tenth of a second, so it is off
\* by at most half a tenth.
C13_ReportRounded ==
    \A e \in Exports :
        exp[e].report = "saved" =>
            /\ exp[e].repFrames = Len(exp[e].wrote)
            /\ Len(exp[e].wrote) = Len(exp[e].snap)
            /\ 2 * (exp[e].repTenths * FPS - 10 * exp[e].repFrames) <= FPS
            /\ 2 * (10 * exp[e].repFrames - exp[e].repTenths * FPS) <= FPS

\* C13 witness: a success report of several frames whose duration is not
\* a whole number of tenths.
C13_Witness ==
    \E e \in Exports :
        /\ exp[e].report = "saved"
        /\ exp[e].repFrames >= 2
        /\ exp[e].repFrames = Len(exp[e].snap)
        /\ exp[e].repTenths * FPS # 10 * exp[e].repFrames

\* start_recording has returned True and stop_recording has not finished.
Running == main_pc \in {"loop", "stats", "stop_flag", "stop_release", "stop_gpio"}

\* C15: every step that delivers a trigger and starts an export is taken
\* while the recorder is running: after start_recording succeeded and
\* before stop_recording has finished.
C15_ExportsOnlyWhileRunning == [][nexp' # nexp => Running]_vars

\* C16: when an export reports success, the count it announced before
\* writing is the number of frames it wrote.
C16_AnnouncedIsWritten ==
    \A e \in Exports :
        exp[e].report = "saved" => exp[e].announced = exp[e].written

\* C17: a step of an export thread or of get_stats leaves the buffer as it
\* was, and every step that changes the buffer is a step of the capture
\* loop.
C17_OnlyLoopWritesBuffer ==
    [][/\ ((\E e \in Exports : ExpStep(e)) \/ GetStats)
            => frame_buffer' = frame_buffer
       /\ frame_buffer' # frame_buffer => LoopStep]_vars

\* C17 witness: an export has listed the buffer, written every frame and
\* reported, and the buffer still holds those frames.
C17_Witness ==
    \E e \in Exports :
        /\ exp[e].report = "saved"
        /\ Len(exp[e].snap) >= 2
        /\ frame_buffer = exp[e].snap
        /\ main_pc = "stats"

\* C20: the capture loop calls camera.read() only on a camera that
\* stop_recording has not released.
C20_NoReadAfterRelease == [][LoopRead => camera # "released"]_vars

\* C14: once the device is lost for good, the capture loop comes to its
\* end and recording is no longer True (unless the process ends first).
C14_PermanentFailureEndsCapture ==
    (source = "dead" /\ loop_pc # "off")
        ~> (~ Alive \/ (loop_pc = "exit" /\ recording = FALSE))

\* C18: after stop_recording has cleared the flag the capture loop comes
\* to its end with recording False and the camera released (unless the
\* process ends first), no iteration is begun with the flag cleared, so
\* that only the iteration in progress can still append, and once
\* stop_recording has released the camera the flag is False and the
\* camera is not open.
C18_StopEndsCapture ==
    /\ (recording = FALSE /\ loop_pc # "off")
          ~> (~ Alive \/ (/\ loop_pc = "exit"
                          /\ recording = FALSE
                          /\ camera = "released"))
    /\ [][(LoopTest /\ recording = FALSE) => loop_pc' = "exit"]_vars
    /\ [](main_pc \in {"stop_gpio", "stop_done", "exited"}
             => (recording = FALSE /\ camera # "open"))

\* C18 witness: frames were captured, stop_recording cleared the flag and
\* released the camera, and the loop has ended.
C18_Witness ==
    /\ Alive
    /\ loop_pc = "exit"
    /\ recording = FALSE
    /\ camera = "released"
    /\ frame_count >= 1
    /\ hist.work # -1

\* C19: an iteration whose working time d was shorter than the period P
\* slept P - d, and one whose working time reached P did not sleep.
C19_SleepMakesUpPeriod ==
    hist.work # -1 =>
        hist.slept = IF hist.work < Period THEN Period - hist.work ELSE 0

=============================================================================
